---- MODULE Spec2Model ----
(***************************************************************************)
(* A model of the ModSimPy notebooks.                                      *)
(*                                                                         *)
(* Part 1, "Iteration" (src/chapters/chap23.ipynb, second notebook): the   *)
(* bike share model.  State objects are mutable Python objects, so they    *)
(* live on a heap (a function from object references to records) and the   *)
(* functions of the notebook are heap transformers.  The notebook defines  *)
(* bike_to_olin and bike_to_wellesley several times; every version is an   *)
(* operator of its own here.                                               *)
(***************************************************************************)
EXTENDS Integers, Sequences, FiniteSets, TLC

VARIABLES
    heap,       \* State objects: reference -> [olin, wellesley, olin_empty, wellesley_empty]
    prev,       \* the heap as it was before the latest operation
    last,       \* the latest operation: [op |-> its name, arg |-> the State object it was given]
    ops,        \* number of operations performed so far
    sim,        \* the frame of run_simulation: pc, state, i, num_steps, results
    pheap,      \* Params objects: reference -> record of parameters
    params0,    \* the caller's params as they were before the first evaluation
    eval,       \* the latest evaluation of range_func: [angle, ret]
    sw,         \* the angle sweep: pc, k (angles done), series (the SweepSeries)
    opt,        \* the frame of maximize_scalar: pc, bracket, points, evaluations, res
    psys,       \* the System object of the penny: [init, g, t_end]
    psys0,      \* the System object as it was when it was made
    pen,        \* the frame of run_solve_ivp for the penny: pc, t, state, results, details
    fe,         \* the latest evaluation of slope_func or event_func
    data,       \* the DataFrame of measurements: a sequence of [time, glucose, insulin]
    interp,     \* the object interpolate returned: [made, points]
    query,      \* the latest call of the interpolating function: [made, t, ret, error]
    rs          \* the frame of root_scalar: pc, bracket, ends, values, res

bikeVars == <<heap, prev, last, ops, sim>>

calibVars == <<pheap, params0, eval, sw, opt>>

pennyVars == <<psys, psys0, pen, fe>>

interpVars == <<data, interp, query>>

rootVars == <<rs>>

vars == <<bikeVars, calibVars, pennyVars, interpVars, rootVars>>

\* What the operations of one part leave alone.
outsideBike == <<calibVars, pennyVars, interpVars, rootVars>>

outsideCalib == <<bikeVars, pennyVars, interpVars, rootVars>>

outsidePenny == <<bikeVars, calibVars, interpVars, rootVars>>

outsideInterp == <<bikeVars, calibVars, pennyVars, rootVars>>

outsideRoot == <<bikeVars, calibVars, pennyVars, interpVars>>

----------------------------------------------------------------------------
(* Bounds of the model. *)

MaxBikes == 1       \* largest initial count at a location
MaxOps == 4         \* calls and loop iterations in one behaviour

(* Exercise 2: State(olin=10, wellesley=2, olin_empty=0, wellesley_empty=0), *)
(* num_steps=60.                                                            *)
Ex2Olin == 10
Ex2Wellesley == 2
Ex2NumSteps == 60

\* Two State objects: the one the global name `bikeshare` refers to (where a
\* cell names it bikeshare1 it plays the same part), and bikeshare2.
bikeshare == 1
bikeshare2 == 2

Refs == {bikeshare, bikeshare2}

State(o, w, oe, we) ==
    [olin |-> o, wellesley |-> w, olin_empty |-> oe, wellesley_empty |-> we]

InitStates == {State(o, w, 0, 0) : o \in 0..MaxBikes, w \in 0..MaxBikes}

----------------------------------------------------------------------------
(* The functions of the notebook, as heap transformers. *)

\* Mutant: the zero-argument version without `bikeshare.wellesley += 1`.
bike_to_wellesley_global_half(h) ==
    [h EXCEPT ![bikeshare].olin = @ - 1]

\* Mutant: the parameter is ignored and the global bikeshare is updated.
bike_to_wellesley_on_global(h, state) ==
    [h EXCEPT ![bikeshare].olin = @ - 1, ![bikeshare].wellesley = @ + 1]

\* Mutant: bike_to_olin with the availability check of the later version.
bike_to_olin_doc_checked(h, state) ==
    IF h[state].wellesley = 0
    THEN h
    ELSE [h EXCEPT ![state].wellesley = @ - 1, ![state].olin = @ + 1]

\* Mutant: the early return is missing.
bike_to_olin_guarded_no_return(h, state) ==
    [h EXCEPT ![state].wellesley = @ - 1, ![state].olin = @ + 1]

\* Mutant: the early return is taken one bike too late (`< 0` for `== 0`).
bike_to_olin_guarded_late(h, state) ==
    IF h[state].wellesley < 0
    THEN h
    ELSE [h EXCEPT ![state].wellesley = @ - 1, ![state].olin = @ + 1]

\* Mutant: the unhappy customer is not counted.
bike_to_olin_uncounted(h, state) ==
    IF h[state].wellesley = 0
    THEN h
    ELSE [h EXCEPT ![state].wellesley = @ - 1, ![state].olin = @ + 1]

\* Mutant: `state.olin += 1` is missing, the bike is lost.
bike_to_olin_lost(h, state) ==
    IF h[state].wellesley = 0
    THEN [h EXCEPT ![state].wellesley_empty = @ + 1]
    ELSE [h EXCEPT ![state].wellesley = @ - 1]

\* def bike_to_wellesley(): the zero-argument version, which updates the
\* global bikeshare.
bike_to_wellesley_global(h) ==
    [h EXCEPT ![bikeshare].olin = @ - 1, ![bikeshare].wellesley = @ + 1]

\* def bike_to_wellesley(state)
bike_to_wellesley(h, state) ==
    [h EXCEPT ![state].olin = @ - 1, ![state].wellesley = @ + 1]

\* def bike_to_olin(state), the documented version without a check
bike_to_olin_doc(h, state) ==
    [h EXCEPT ![state].wellesley = @ - 1, ![state].olin = @ + 1]

\* def bike_to_olin(state), the version that returns early
bike_to_olin_guarded(h, state) ==
    IF h[state].wellesley = 0
    THEN h
    ELSE [h EXCEPT ![state].wellesley = @ - 1, ![state].olin = @ + 1]

\* def bike_to_olin(state), the version that counts unhappy customers
bike_to_olin(h, state) ==
    IF h[state].wellesley = 0
    THEN [h EXCEPT ![state].wellesley_empty = @ + 1]
    ELSE [h EXCEPT ![state].wellesley = @ - 1, ![state].olin = @ + 1]

\* def step(state, p1, p2); f1 and f2 are the outcomes of flip(p1), flip(p2)
step(h, state, f1, f2) ==
    LET h1 == IF f1 THEN bike_to_wellesley(h, state) ELSE h
    IN  IF f2 THEN bike_to_olin(h1, state) ELSE h1

----------------------------------------------------------------------------
(* Operations. *)

\* What is remembered of the run of run_simulation that returned before the
\* current one: the State object it was given, the first and the last entry
\* of its results, and whether a function was called between the two runs.
NoBefore == [made |-> FALSE, state |-> 0, first |-> 0, last |-> 0, apart |-> FALSE]

NoSim == [pc |-> "idle", state |-> 0, i |-> 0, num_steps |-> 0,
          results |-> [first |-> 0, last |-> 0, n |-> 0], before |-> NoBefore]

InitBike(states) ==
    /\ heap \in [Refs -> states]
    /\ prev = heap
    /\ last = [op |-> "none", arg |-> 0]
    /\ ops = 0
    /\ sim = NoSim

\* A cell of the notebook runs to completion: nothing is called while
\* run_simulation is in its loop.
CanCall == sim.pc # "loop"

Called(op, s, h) ==
    /\ heap' = h
    /\ prev' = heap
    /\ last' = [op |-> op, arg |-> s]
    /\ ops' = ops + 1
    /\ UNCHANGED <<sim, outsideBike>>

call_bike_to_wellesley_global ==
    /\ CanCall
    /\ Called("bike_to_wellesley_global", bikeshare, bike_to_wellesley_global(heap))

call_bike_to_wellesley(s) ==
    /\ CanCall
    /\ Called("bike_to_wellesley", s, bike_to_wellesley(heap, s))

call_bike_to_olin_doc(s) ==
    /\ CanCall
    /\ Called("bike_to_olin_doc", s, bike_to_olin_doc(heap, s))

call_bike_to_olin_guarded(s) ==
    /\ CanCall
    /\ Called("bike_to_olin_guarded", s, bike_to_olin_guarded(heap, s))

call_bike_to_olin(s) ==
    /\ CanCall
    /\ Called("bike_to_olin", s, bike_to_olin(heap, s))

\* run_simulation(state, p1, p2, num_steps) up to the loop: results[0] = state.olin.
\* The TimeSeries is local to run_simulation and is only plotted; it is kept
\* as its first entry, its latest entry and its number of entries.
run_simulation_begin(s, n) ==
    /\ sim.pc # "loop"
    /\ sim' = [pc |-> "loop", state |-> s, i |-> 0, num_steps |-> n,
               results |-> [first |-> heap[s].olin, last |-> heap[s].olin, n |-> 1],
               before |-> IF sim.pc = "done"
                          THEN [made |-> TRUE, state |-> sim.state,
                                first |-> sim.results.first,
                                last |-> sim.results.last,
                                apart |-> last.op \notin {"step", "run_simulation"}]
                          ELSE NoBefore]
    /\ prev' = heap
    /\ last' = [op |-> "run_simulation", arg |-> s]
    /\ ops' = ops + 1
    /\ UNCHANGED <<heap, outsideBike>>

\* Mutant: the loop steps a copy of the State object and records the copy.
run_simulation_iter_copy ==
    /\ sim.pc = "loop"
    /\ sim.i < sim.num_steps
    /\ \E f1, f2 \in BOOLEAN :
          sim' = [sim EXCEPT !.i = @ + 1,
                             !.results.last = step(heap, sim.state, f1, f2)[sim.state].olin,
                             !.results.n = @ + 1]
    /\ prev' = heap
    /\ last' = [op |-> "step", arg |-> sim.state]
    /\ ops' = ops + 1
    /\ UNCHANGED <<heap, outsideBike>>

\* One iteration of the loop: step(state, p1, p2); results[i+1] = state.olin.
\* 0 < p1, p2 < 1, so flip can return either value.
run_simulation_iter ==
    /\ sim.pc = "loop"
    /\ sim.i < sim.num_steps
    /\ \E f1, f2 \in BOOLEAN :
          heap' = step(heap, sim.state, f1, f2)
    /\ sim' = [sim EXCEPT !.i = @ + 1,
                          !.results.last = heap'[sim.state].olin,
                          !.results.n = @ + 1]
    /\ prev' = heap
    /\ last' = [op |-> "step", arg |-> sim.state]
    /\ ops' = ops + 1
    /\ UNCHANGED outsideBike

\* The loop is over: the series is plotted and run_simulation returns.
run_simulation_end ==
    /\ sim.pc = "loop"
    /\ sim.i = sim.num_steps
    /\ sim' = [sim EXCEPT !.pc = "done"]
    /\ UNCHANGED <<heap, prev, last, ops, outsideBike>>

----------------------------------------------------------------------------
(***************************************************************************)
(* Part 2, "Optimal Baseball" (src/chapters/chap23.ipynb, first notebook): *)
(* range_func and the sweep over launch angles.  Params objects live on a  *)
(* heap of their own.  Lengths are in metres, angles in whole degrees.     *)
(* make_system, run_solve_ivp and Params.set are imported by the notebook; *)
(* they are modelled as the specification describes them, with drag-free   *)
(* kinematics in integer arithmetic.                                       *)
(***************************************************************************)

\* angles = linspace(20, 80, 21)
SweepFirst == 20
SweepLast == 80
SweepCount == 21

\* wall_distance = 310 * feet_to_meter, wall_height = 37 * feet_to_meter
WallDistanceFeet == 310
WallHeightFeet == 37
MmPerFoot10 == 3048

\* g = 9.8 m/s^2, times ten
G10 == 98

\* The global name `params` refers to the first Params object.
params == 1

\* Angles of the direct calls, range_func(45, params) among them, and the
\* launch speeds and angles params may hold before the first call.
TrialAngles == {0, 20, 41, 45, 70, 90}
InitSpeeds == {30, 40}
InitAngles == {30, 45}

\* linspace(a, b, n)
linspace(a, b, n) == [k \in 1..n |-> a + ((k - 1) * (b - a)) \div (n - 1)]

angles == linspace(SweepFirst, SweepLast, SweepCount)

\* 1000 * sin(x degrees), 0 <= x <= 180 (Bhaskara's approximation)
Sin1000(x) == (4000 * x * (180 - x)) \div (40500 - x * (180 - x))

Cos1000(x) == Sin1000(90 - x)

\* Params.set(**overrides): a new record, the fields given overridden or
\* added, the others copied; the record it is called on is not touched.
set(rec, overrides) ==
    [f \in DOMAIN rec \cup DOMAIN overrides |->
        IF f \in DOMAIN overrides THEN overrides[f] ELSE rec[f]]

\* params = params.set(wall_distance=..., wall_height=...), in millimetres
WithWall(rec) ==
    set(rec, [wall_distance |-> (WallDistanceFeet * MmPerFoot10) \div 10,
              wall_height |-> (WallHeightFeet * MmPerFoot10) \div 10])

\* make_system(params): the System with the initial position and the
\* components of the initial velocity (in cm/s)
make_system(pr) ==
    [x |-> 0, y |-> 0,
     vx |-> (pr.speed * Cos1000(pr.angle)) \div 10,
     vy |-> (pr.speed * Sin1000(pr.angle)) \div 10]

\* run_solve_ivp(system, slope_func, events=event_func): the trajectory from
\* the launch to the landing, where the event function stops the run.
run_solve_ivp(system) ==
    << [x |-> system.x, y |-> system.y],
       [x |-> system.x + (2 * system.vx * system.vy * 10) \div (G10 * 10000),
        y |-> 0] >>

\* A reference no object of the heap has.
alloc(h) == CHOOSE r \in 1..(Cardinality(DOMAIN h) + 1) : r \notin DOMAIN h

\* Mutant: the angle is written into the caller's Params object.
range_func_in_place(h, angle, p) ==
    LET h1 == [h EXCEPT ![p].angle = angle]
        system == make_system(h1[p])
        results == run_solve_ivp(system)
        x_dist == results[Len(results)].x
    IN  [heap |-> h1, ret |-> x_dist]

\* Mutant: the System is made before the angle is set, and the angle is
\* written into the caller's Params object, where the next call finds it.
range_func_system_first(h, angle, p) ==
    LET system == make_system(h[p])
        h1 == [h EXCEPT ![p].angle = angle]
        results == run_solve_ivp(system)
        x_dist == results[Len(results)].x
    IN  [heap |-> h1, ret |-> x_dist]

\* def range_func(angle, params): the heap after the call and the value
\* returned.  The local name params is bound to the new object; the objects
\* of the call are gone when it returns.
range_func(h, angle, p) ==
    LET new == alloc(h)
        h1 == [r \in DOMAIN h \cup {new} |->
                  IF r = new THEN set(h[p], [angle |-> angle]) ELSE h[r]]
        system == make_system(h1[new])
        results == run_solve_ivp(system)
        x_dist == results[Len(results)].x
    IN  [heap |-> [r \in DOMAIN h |-> h1[r]], ret |-> x_dist]

NoEval == [made |-> FALSE, angle |-> 0, ret |-> 0]

NoSweep == [pc |-> "idle", k |-> 0, series |-> << >>]

NoRes == [made |-> FALSE, x |-> 0, fun |-> 0, success |-> FALSE, nfev |-> 0]

NoOpt ==
    [pc |-> "idle", a |-> 0, b |-> 0, x1 |-> 0, f1 |-> 0, x2 |-> 0, f2 |-> 0,
     xf |-> 0, fx |-> 0, evals |-> {}, res |-> NoRes]

InitCalib(speeds, launch_angles) ==
    /\ \E v \in speeds, a \in launch_angles :
          pheap = [r \in {params} |-> WithWall([angle |-> a, speed |-> v])]
    /\ params0 = pheap[params]
    /\ eval = NoEval
    /\ sw = NoSweep
    /\ opt = NoOpt

\* x_dist = range_func(angle, params), called from a cell or by an optimizer
call_range_func(angle) ==
    /\ sw.pc # "loop"
    /\ LET r == range_func(pheap, angle, params)
       IN  /\ pheap' = r.heap
           /\ eval' = [made |-> TRUE, angle |-> angle, ret |-> r.ret]
    /\ UNCHANGED <<params0, sw, opt, outsideCalib>>

\* angles = linspace(20, 80, 21); sweep = SweepSeries()
sweep_begin ==
    /\ sw.pc # "loop"
    /\ sw' = [pc |-> "loop", k |-> 0, series |-> << >>]
    /\ UNCHANGED <<pheap, params0, eval, opt, outsideCalib>>

\* for angle in angles: x_dist = range_func(angle, params); sweep[angle] = x_dist
sweep_iter ==
    /\ sw.pc = "loop"
    /\ sw.k < Len(angles)
    /\ LET angle == angles[sw.k + 1]
           r == range_func(pheap, angle, params)
       IN  /\ pheap' = r.heap
           /\ eval' = [made |-> TRUE, angle |-> angle, ret |-> r.ret]
           /\ sw' = [sw EXCEPT !.k = @ + 1,
                               !.series = [a \in DOMAIN sw.series \cup {angle} |->
                                              IF a = angle THEN r.ret
                                              ELSE sw.series[a]]]
    /\ UNCHANGED <<params0, opt, outsideCalib>>

\* The loop over angles is over.
sweep_end ==
    /\ sw.pc = "loop"
    /\ sw.k = Len(angles)
    /\ sw' = [sw EXCEPT !.pc = "done"]
    /\ UNCHANGED <<pheap, params0, eval, opt, outsideCalib>>

----------------------------------------------------------------------------
(***************************************************************************)
(* maximize_scalar.  The notebook imports it; it is modelled as the        *)
(* specification describes it: a bounded golden-section search that        *)
(* minimizes the negated objective, keeps the best point it has evaluated  *)
(* and negates the value back in the result.  Angles are whole degrees.    *)
(***************************************************************************)

\* res = maximize_scalar(range_func, params, bounds=[0, 90])
BoundLow == 0
BoundHigh == 90

\* The golden mean 0.5 * (3 - sqrt(5)), times 1000, and the width of the
\* bracket at which the search stops, in degrees.
GoldenMean1000 == 382
XTol == 1

\* Mutant: the call gives the bounds [0, 180].
bounds_wide == <<BoundLow, 2 * BoundHigh>>

bounds == <<BoundLow, BoundHigh>>

golden(a, b) == (GoldenMean1000 * (b - a)) \div 1000

\* The bracket after one more comparison of the two inner points (values of
\* the negated objective), and the point to evaluate next.
shrink(o) ==
    IF o.f1 <= o.f2
    THEN [o EXCEPT !.b = o.x2, !.x2 = o.x1, !.f2 = o.f1,
                   !.x1 = o.a + golden(o.a, o.x2)]
    ELSE [o EXCEPT !.a = o.x1, !.x1 = o.x2, !.f1 = o.f2,
                   !.x2 = o.b - golden(o.x1, o.b)]

slot(o) == IF o.f1 <= o.f2 THEN 1 ELSE 2

\* The search goes on while the bracket is wider than XTol and the next
\* point is a new point inside it.
searching(o) ==
    /\ o.b - o.a > XTol
    /\ shrink(o).a < shrink(o).x1
    /\ shrink(o).x1 < shrink(o).x2
    /\ shrink(o).x2 < shrink(o).b

\* One evaluation of the objective by the optimizer: min_func(x) is
\* -range_func(x, params); the best point so far is kept in xf, fx.
evaluate(o, x, k) ==
    LET r == range_func(pheap, x, params)
        fu == 0 - r.ret
        better == o.evals = {} \/ fu < o.fx
    IN  /\ pheap' = r.heap
        /\ eval' = [made |-> TRUE, angle |-> x, ret |-> r.ret]
        /\ opt' = [o EXCEPT !.f1 = IF k = 1 THEN fu ELSE @,
                            !.f2 = IF k = 2 THEN fu ELSE @,
                            !.xf = IF better THEN x ELSE @,
                            !.fx = IF better THEN fu ELSE @,
                            !.evals = @ \cup {<<x, r.ret>>}]

\* res = maximize_scalar(range_func, params, bounds=[0, 90]): the call
maximize_scalar_begin ==
    /\ opt.pc \in {"idle", "done"}
    /\ sw.pc # "loop"
    /\ opt' = [NoOpt EXCEPT !.pc = "first", !.a = bounds[1], !.b = bounds[2]]
    /\ UNCHANGED <<pheap, params0, eval, sw, outsideCalib>>

\* The first inner point.
maximize_scalar_first ==
    /\ opt.pc = "first"
    /\ LET x == opt.a + golden(opt.a, opt.b)
       IN  evaluate([opt EXCEPT !.pc = "second", !.x1 = x], x, 1)
    /\ UNCHANGED <<params0, sw, outsideCalib>>

\* The second inner point.
maximize_scalar_second ==
    /\ opt.pc = "second"
    /\ LET x == opt.b - golden(opt.a, opt.b)
       IN  evaluate([opt EXCEPT !.pc = "loop", !.x2 = x], x, 2)
    /\ UNCHANGED <<params0, sw, outsideCalib>>

\* One iteration of the search.
maximize_scalar_iter ==
    /\ opt.pc = "loop"
    /\ searching(opt)
    /\ LET o == shrink(opt)
           k == slot(opt)
       IN  evaluate(o, IF k = 1 THEN o.x1 ELSE o.x2, k)
    /\ UNCHANGED <<params0, sw, outsideCalib>>

\* The search is over: res.x is the best point, res.fun the value of the
\* objective there (the minimum of the negated objective, negated back).
maximize_scalar_end ==
    /\ opt.pc = "loop"
    /\ ~searching(opt)
    /\ opt' = [opt EXCEPT !.pc = "done",
                          !.res = [made |-> TRUE, x |-> opt.xf, fun |-> 0 - opt.fx,
                                   success |-> TRUE,
                                   nfev |-> Cardinality(opt.evals)]]
    /\ UNCHANGED <<pheap, params0, eval, sw, outsideCalib>>

----------------------------------------------------------------------------
(***************************************************************************)
(* Part 3, "Pennies" (src/unnamed/part_000): the falling penny.            *)
(*                                                                         *)
(* Quantities are integers: time in ticks of 5 ms, height in units of      *)
(* 2.5 micrometres, velocity in height units per tick (0.5 mm/s) and       *)
(* acceleration in height units per tick per tick (0.1 m/s^2), so that     *)
(* g = 9.8 m/s^2 is 98 and free fall is computed without rounding.         *)
(* A State is the pair <<y, v>>, in the order of State(y=..., v=...).      *)
(* slope_func and event_func return the value of the call together with    *)
(* the objects they were given as they are after the call.                 *)
(***************************************************************************)

TicksPerSecond == 200
UnitsPerMetre == 400000

\* init = State(y=381, v=0); system = System(init=init, g=9.8, t_end=10)
PennyHeight == 381
PennyG10 == 98
PennyTEnd == 10

init == <<PennyHeight * UnitsPerMetre, 0>>

system == [init |-> init, g |-> PennyG10, t_end |-> PennyTEnd * TicksPerSecond]

\* The initial conditions a run is given: the penny's, and a body thrown
\* upwards from y = -39.2 m at v = 29.4 m/s, which passes y = 0 at t = 2 s
\* going up and at t = 4 s coming down.
InitConditions == {init, <<0 - 15680000, 58800>>}

Systems == {[system EXCEPT !.init = s] : s \in InitConditions}

\* Mutant: the derivatives are returned in the order (dvdt, dydt).
slope_func_swapped(t, state, sys) ==
    LET y == state[1]
        v == state[2]
        dydt == v
        dvdt == 0 - sys.g
    IN  [ret |-> <<dvdt, dydt>>, state |-> state, system |-> sys]

\* Mutant: the function advances the State it was given by the velocity's
\* derivative before it returns.
slope_func_in_place(t, state, sys) ==
    LET y == state[1]
        v == state[2]
        dydt == v
        dvdt == 0 - sys.g
    IN  [ret |-> <<dydt, dvdt>>, state |-> <<y, v + dvdt>>, system |-> sys]

\* def slope_func(t, state, system):
\*     y, v = state; dydt = v; dvdt = -system.g; return dydt, dvdt
slope_func(t, state, sys) ==
    LET y == state[1]
        v == state[2]
        dydt == v
        dvdt == 0 - sys.g
    IN  [ret |-> <<dydt, dvdt>>, state |-> state, system |-> sys]

\* Mutant: the State is unpacked in the order v, y.
event_func_velocity(t, state, sys) ==
    LET v == state[1]
        y == state[2]
    IN  [ret |-> y, state |-> state, system |-> sys]

\* def event_func(t, state, system):
\*     y, v = state; return y
event_func(t, state, sys) ==
    LET y == state[1]
        v == state[2]
    IN  [ret |-> y, state |-> state, system |-> sys]

(***************************************************************************)
(* run_solve_ivp for the penny.  The notebook imports it; it is modelled   *)
(* as the specification describes the driver: accepted steps of sizes the  *)
(* error control chooses, the event function compared at the two ends of   *)
(* every accepted step, the crossing located by bisection on the dense     *)
(* output, and failure reported in the details.  A step is a two-stage     *)
(* Runge-Kutta step (Heun), which is exact for constant acceleration.      *)
(***************************************************************************)

\* Step sizes the error control may accept, in ticks, and the points of the
\* evaluations the integrator makes and discards.
StepSizes == {200, 500, 1000}
TrialTimes == {0, 300}
TrialStates == {<<0, 0>>, <<1000, 0 - 98>>}

MsgEnd == "The solver successfully reached the end of the integration interval."
MsgEvent == "A termination event occurred."
MsgFail == "Required step size is less than spacing between numbers."

sign(x) == IF x > 0 THEN 1 ELSE IF x < 0 THEN 0 - 1 ELSE 0

min(a, b) == IF a <= b THEN a ELSE b

\* The State at the end of a step of size h with slopes k1 and k2.
advance(state, k1, k2, h) ==
    << state[1] + (h * (k1[1] + k2[1])) \div 2,
       state[2] + (h * (k1[2] + k2[2])) \div 2 >>

\* Dense output: the State dt ticks into the step c.
dense(c, dt) ==
    << c.state[1] + dt * c.k1[1] + (dt * ((dt * (c.k2[1] - c.k1[1])) \div c.h)) \div 2,
       c.state[2] + dt * c.k1[2] + (dt * ((dt * (c.k2[2] - c.k1[2])) \div c.h)) \div 2 >>

\* The event function has a sign at the start of the step and another sign,
\* or zero, at its end.
crosses(g0, g1) == (g0 < 0 /\ g1 >= 0) \/ (g0 > 0 /\ g1 <= 0)

\* Bisection within the step c: the event function has the sign of the
\* start of the step at lo and not at hi; the first tick where it has not.
RECURSIVE bisect(_, _, _)
bisect(c, lo, hi) ==
    IF hi - lo <= 1 THEN hi
    ELSE LET mid == (lo + hi) \div 2
             gm == event_func(c.t + mid, dense(c, mid), c.sys).ret
         IN  IF sign(gm) = sign(c.g0) THEN bisect(c, mid, hi)
             ELSE bisect(c, lo, mid)

\* A row of results: the time is the index, y and v are the columns.
row(t, state) == [t |-> t, y |-> state[1], v |-> state[2]]

NoDetails == [success |-> FALSE, status |-> 0, message |-> "", t_events |-> << >>]

NoRun ==
    [pc |-> "idle", events |-> FALSE, t |-> 0, state |-> <<0, 0>>,
     results |-> << >>, details |-> NoDetails]

NoCall == [fn |-> "none", t |-> 0, state |-> <<0, 0>>, ret |-> <<0, 0>>, after |-> <<0, 0>>]

InitPenny(systems) ==
    /\ psys \in systems
    /\ psys0 = psys
    /\ pen = NoRun
    /\ fe = NoCall

\* dydt, dvdt = slope_func(0, system.init, system)
call_slope_func ==
    /\ pen.pc # "run"
    /\ LET r == slope_func(0, psys.init, psys)
       IN  /\ psys' = [r.system EXCEPT !.init = r.state]
           /\ fe' = [fn |-> "slope_func", t |-> 0, state |-> psys.init,
                     ret |-> r.ret, after |-> r.state]
    /\ UNCHANGED <<psys0, pen, outsidePenny>>

\* results, details = run_solve_ivp(system, slope_func) and
\* results, details = run_solve_ivp(system, slope_func, events=event_func):
\* the call.  The run works on a copy of system.init.
run_solve_ivp_begin(events) ==
    /\ pen.pc # "run"
    /\ pen' = [NoRun EXCEPT !.pc = "run", !.events = events, !.state = psys.init,
                            !.results = << row(0, psys.init) >>]
    /\ UNCHANGED <<psys, psys0, fe, outsidePenny>>

\* One accepted step of size h, cut at t_end, and the events after it.
run_solve_ivp_step(h) ==
    /\ pen.pc = "run"
    /\ LET hh == min(h, psys.t_end - pen.t)
           r1 == slope_func(pen.t, pen.state, psys)
           k1 == r1.ret
           trial == <<r1.state[1] + hh * k1[1], r1.state[2] + hh * k1[2]>>
           r2 == slope_func(pen.t + hh, trial, r1.system)
           k2 == r2.ret
           new == advance(r1.state, k1, k2, hh)
           e0 == event_func(pen.t, r1.state, r2.system)
           e1 == event_func(pen.t + hh, new, e0.system)
           crossed == pen.events /\ crosses(e0.ret, e1.ret)
           c == [t |-> pen.t, state |-> r1.state, k1 |-> k1, k2 |-> k2,
                 h |-> hh, sys |-> e1.system, g0 |-> e0.ret]
           dt == IF crossed THEN bisect(c, 0, hh) ELSE hh
           at == IF crossed THEN dense(c, dt) ELSE new
           tn == pen.t + dt
       IN  /\ psys' = IF pen.events THEN e1.system ELSE r2.system
           /\ fe' = [fn |-> "slope_func", t |-> pen.t + hh, state |-> trial,
                     ret |-> k2, after |-> r2.state]
           /\ pen' = [pen EXCEPT
                 !.t = tn,
                 !.state = at,
                 !.results = Append(@, row(tn, at)),
                 !.pc = IF crossed \/ tn = psys.t_end THEN "done" ELSE "run",
                 !.details =
                     IF crossed
                     THEN [success |-> TRUE, status |-> 1, message |-> MsgEvent,
                           t_events |-> << tn >>]
                     ELSE IF tn = psys.t_end
                     THEN [success |-> TRUE, status |-> 0, message |-> MsgEnd,
                           t_events |-> << >>]
                     ELSE @]
    /\ UNCHANGED <<psys0, outsidePenny>>

\* An evaluation of slope_func or event_func at a trial point, whose value
\* the integrator discards.
run_solve_ivp_speculate(fn, tt, st) ==
    /\ pen.pc = "run"
    /\ LET r == IF fn = "slope_func" THEN slope_func(tt, st, psys)
                ELSE [event_func(tt, st, psys) EXCEPT !.ret = <<@>>]
       IN  /\ psys' = r.system
           /\ fe' = [fn |-> fn, t |-> tt, state |-> st, ret |-> r.ret,
                     after |-> r.state]
    /\ UNCHANGED <<psys0, pen, outsidePenny>>

\* Mutant: the failure leaves the success flag set and gives no message.
run_solve_ivp_fail_silent ==
    /\ pen.pc = "run"
    /\ pen' = [pen EXCEPT
          !.pc = "done",
          !.details = [success |-> TRUE, status |-> 0 - 1, message |-> "",
                       t_events |-> << >>]]
    /\ UNCHANGED <<psys, psys0, fe, outsidePenny>>

\* The integrator cannot go on within its step-size limits: the run ends
\* with the rows it has, and the details say so.
run_solve_ivp_fail ==
    /\ pen.pc = "run"
    /\ pen' = [pen EXCEPT
          !.pc = "done",
          !.details = [success |-> FALSE, status |-> 0 - 1, message |-> MsgFail,
                       t_events |-> << >>]]
    /\ UNCHANGED <<psys, psys0, fe, outsidePenny>>

----------------------------------------------------------------------------
(***************************************************************************)
(* Part 4, "Pharmacokinetics" (src/unnamed/part_001): the interpolated     *)
(* insulin measurements.  The DataFrame is a sequence of rows in the order *)
(* of its index; concentrations are in thousandths.  interpolate is        *)
(* imported by the notebook; it is modelled as the specification describes *)
(* it: piecewise linear between consecutive samples, and an error for a    *)
(* time outside the samples.                                               *)
(***************************************************************************)

\* The index of the rows around I(18), the measurements they may hold, and
\* the times the interpolating function is asked for.
SampleTimes == <<14, 16, 19, 22>>
GlucoseValues == {90000}
InsulinValues == {30000, 31000, 35000}
QueryTimes == 12 .. 24

\* data = read_csv(..., index_col='time')
DataFrames ==
    {d \in [DOMAIN SampleTimes ->
               [time : {SampleTimes[i] : i \in DOMAIN SampleTimes},
                glucose : GlucoseValues, insulin : InsulinValues]] :
        \A i \in DOMAIN SampleTimes : d[i].time = SampleTimes[i]}

\* data.insulin and data.glucose: a Series, the pairs of index and value
insulin(d) == [i \in DOMAIN d |-> [t |-> d[i].time, v |-> d[i].insulin]]

glucose(d) == [i \in DOMAIN d |-> [t |-> d[i].time, v |-> d[i].glucose]]

\* No keyword arguments.
NoOptions == << >>

\* interpolate(series, **options): the function object, with its own copy of
\* the samples; it extrapolates only if fill_value='extrapolate' was given.
interpolate(series, options) ==
    [made |-> TRUE, points |-> series,
     extrapolate |-> "fill_value" \in DOMAIN options
                        /\ options.fill_value = "extrapolate"]

\* The row of the segment a time within the samples falls in: the last row
\* at or before it that has a row after it.
segment(pts, t) ==
    CHOOSE i \in 1 .. (Len(pts) - 1) :
        /\ pts[i].t <= t
        /\ (i = Len(pts) - 1 \/ t < pts[i + 1].t)

\* The straight line through the two ends of the segment.
linear(p, q, t) == p.v + ((q.v - p.v) * (t - p.t)) \div (q.t - p.t)

\* The segment whose line gives the value at time t: the segment t falls
\* in, or the first or the last one for a time outside the samples.
nearest_segment(pts, t) ==
    IF t < pts[1].t THEN 1
    ELSE IF t > pts[Len(pts)].t THEN Len(pts) - 1
    ELSE segment(pts, t)

\* Mutant: a time outside the samples gets the value of the line through
\* the nearest two samples, whether or not extrapolation was asked for.
evaluate_at_extended(f, t) ==
    LET pts == f.points
        i == nearest_segment(pts, t)
    IN  [made |-> TRUE, t |-> t, ret |-> linear(pts[i], pts[i + 1], t),
         error |-> FALSE, extrapolate |-> f.extrapolate]

\* I(t): the value, or an error for a time outside the samples unless the
\* function was built to extrapolate
evaluate_at(f, t) ==
    LET pts == f.points
        i == nearest_segment(pts, t)
    IN  IF (t < pts[1].t \/ t > pts[Len(pts)].t) /\ ~f.extrapolate
        THEN [made |-> TRUE, t |-> t, ret |-> 0, error |-> TRUE,
              extrapolate |-> f.extrapolate]
        ELSE [made |-> TRUE, t |-> t, ret |-> linear(pts[i], pts[i + 1], t),
              error |-> FALSE, extrapolate |-> f.extrapolate]

NoInterp == [made |-> FALSE, points |-> << >>, extrapolate |-> FALSE]

\* One DataFrame, for the specifications of the other parts.
OneFrame == CHOOSE d \in DataFrames : TRUE

NoQuery == [made |-> FALSE, t |-> 0, ret |-> 0, error |-> FALSE, extrapolate |-> FALSE]

InitInterp(frames) ==
    /\ data \in frames
    /\ interp = NoInterp
    /\ query = NoQuery

\* Mutant: the glucose column is interpolated.
call_interpolate_glucose ==
    /\ interp' = interpolate(glucose(data), NoOptions)
    /\ UNCHANGED <<data, query, outsideInterp>>

\* I = interpolate(data.insulin)
call_interpolate ==
    /\ interp' = interpolate(insulin(data), NoOptions)
    /\ UNCHANGED <<data, query, outsideInterp>>

\* I = interpolate(data.insulin, fill_value='extrapolate')
call_interpolate_extrapolate ==
    /\ interp' = interpolate(insulin(data), [fill_value |-> "extrapolate"])
    /\ UNCHANGED <<data, query, outsideInterp>>

\* I(18), and I(t) for each t of t_array
call_I(t) ==
    /\ interp.made
    /\ query' = evaluate_at(interp, t)
    /\ UNCHANGED <<data, interp, outsideInterp>>

----------------------------------------------------------------------------
(***************************************************************************)
(* Part 5, Exercise 1 of "Optimal Baseball" (src/chapters/chap23.ipynb):   *)
(* the speed that takes the ball to the top of the wall.  The notebook     *)
(* leaves height_func and the error function to the reader and imports     *)
(* root_scalar; they are modelled as the exercise and the specification    *)
(* describe them, the flight being drag-free: root_scalar compares the     *)
(* signs of the error at the two ends of the bracket, fails if they are    *)
(* the same, and halves the bracket otherwise.  Speeds are in whole m/s,   *)
(* heights in millimetres, times in milliseconds.                          *)
(***************************************************************************)

\* The ends a bracket of speeds may have, and the launch angles among which
\* the highest point at the wall is looked for.
BracketSpeeds == {20, 26, 32, 38, 44, 50}
HeightAngles == 20 .. 80

MsgSign == "f(a) and f(b) must have different signs"

\* run_solve_ivp with an event function that stops the flight at the wall:
\* the last row, where x is wall_distance.
flight_to_wall(sys, wall_distance) ==
    LET t == (wall_distance * 100) \div sys.vx
    IN  [x |-> wall_distance,
         y |-> (sys.vy * t) \div 100 - (G10 * ((t * t) \div 100)) \div 200]

\* height_func(angle, params): the height of the ball when it reaches the wall
height_func(angle, pr) ==
    LET p2 == set(pr, [angle |-> angle])
    IN  flight_to_wall(make_system(p2), p2.wall_distance).y

\* The highest possible height at the wall, what maximize_scalar finds over
\* the launch angles.
best_height(pr) ==
    LET heights == {height_func(a, pr) : a \in HeightAngles}
    IN  CHOOSE y \in heights : \A z \in heights : z <= y

\* error_func(speed, params): the highest possible height of the ball at the
\* wall for the speed, minus wall_height
error_func(speed, pr) ==
    best_height(set(pr, [speed |-> speed])) - pr.wall_height

NoRootRes ==
    [made |-> FALSE, root |-> << >>, converged |-> FALSE, failed |-> FALSE,
     message |-> ""]

NoRoot ==
    [pc |-> "idle", a |-> 0, b |-> 0, lo |-> 0, hi |-> 0, flo |-> 0, fhi |-> 0,
     res |-> NoRootRes]

InitRoot == rs = NoRoot

\* Mutant: the signs at the ends of the bracket are not compared.
root_scalar_begin_unchecked(a, b) ==
    /\ rs.pc # "loop"
    /\ rs' = [NoRoot EXCEPT !.pc = "loop", !.a = a, !.b = b, !.lo = a, !.hi = b,
                            !.flo = error_func(a, pheap[params]),
                            !.fhi = error_func(b, pheap[params])]
    /\ UNCHANGED outsideRoot

\* res = root_scalar(error_func, params, bracket=[a, b]): the call.  The
\* error is evaluated at both ends; with the same sign at both the call
\* fails at once.
root_scalar_begin(a, b) ==
    /\ rs.pc # "loop"
    /\ LET fa == error_func(a, pheap[params])
           fb == error_func(b, pheap[params])
           o == [NoRoot EXCEPT !.a = a, !.b = b, !.lo = a, !.hi = b,
                               !.flo = fa, !.fhi = fb]
       IN  rs' = IF sign(fa) * sign(fb) > 0
                 THEN [o EXCEPT !.pc = "done",
                                !.res = [made |-> TRUE, root |-> << >>,
                                         converged |-> FALSE, failed |-> TRUE,
                                         message |-> MsgSign]]
                 ELSE [o EXCEPT !.pc = "loop"]
    /\ UNCHANGED outsideRoot

\* One halving of the bracket.
root_scalar_iter ==
    /\ rs.pc = "loop"
    /\ rs.hi - rs.lo > 1
    /\ LET mid == (rs.lo + rs.hi) \div 2
           fm == error_func(mid, pheap[params])
       IN  rs' = IF sign(fm) = sign(rs.flo)
                 THEN [rs EXCEPT !.lo = mid, !.flo = fm]
                 ELSE [rs EXCEPT !.hi = mid, !.fhi = fm]
    /\ UNCHANGED outsideRoot

\* The bracket is one m/s wide: the end with the smaller error is the root.
root_scalar_end ==
    /\ rs.pc = "loop"
    /\ rs.hi - rs.lo <= 1
    /\ rs' = [rs EXCEPT
          !.pc = "done",
          !.res = [made |-> TRUE,
                   root |-> IF sign(rs.flo) * rs.flo <= sign(rs.fhi) * rs.fhi
                            THEN << rs.lo >> ELSE << rs.hi >>,
                   converged |-> TRUE, failed |-> FALSE, message |-> ""]]
    /\ UNCHANGED outsideRoot

----------------------------------------------------------------------------
(* Specifications. *)

\* Every function of the notebook, called in any order on any State object.
Init ==
    /\ InitBike(InitStates)
    /\ InitCalib({40}, {45})
    /\ InitPenny({system})
    /\ InitInterp({OneFrame})
    /\ InitRoot

\* ops < MaxOps bounds a behaviour; a run is started only when its loop fits.
Next ==
    \/ ops < MaxOps /\ call_bike_to_wellesley_global
    \/ ops < MaxOps /\ \E s \in Refs : call_bike_to_wellesley(s)
    \/ ops < MaxOps /\ \E s \in Refs : call_bike_to_olin_doc(s)
    \/ ops < MaxOps /\ \E s \in Refs : call_bike_to_olin_guarded(s)
    \/ ops < MaxOps /\ \E s \in Refs : call_bike_to_olin(s)
    \/ \E s \in Refs, n \in 0..MaxOps :
          ops + n < MaxOps /\ run_simulation_begin(s, n)
    \/ run_simulation_iter
    \/ run_simulation_end

Spec == Init /\ [][Next]_vars

\* The model before "Negative Bikes": no function checks for a bike.
NextUnchecked ==
    \/ ops < MaxOps /\ call_bike_to_wellesley_global
    \/ ops < MaxOps /\ \E s \in Refs : call_bike_to_wellesley(s)
    \/ ops < MaxOps /\ \E s \in Refs : call_bike_to_olin_doc(s)

SpecUnchecked == Init /\ [][NextUnchecked]_vars

\* The model with the guarded versions of bike_to_olin.
NextGuarded ==
    \/ ops < MaxOps /\ \E s \in Refs : call_bike_to_wellesley(s)
    \/ ops < MaxOps /\ \E s \in Refs : call_bike_to_olin_guarded(s)
    \/ ops < MaxOps /\ \E s \in Refs : call_bike_to_olin(s)

SpecGuarded == Init /\ [][NextGuarded]_vars

\* Exercise 2: one run_simulation of 60 steps from
\* State(olin=10, wellesley=2, olin_empty=0, wellesley_empty=0).
InitEx2 ==
    /\ InitBike({State(Ex2Olin, Ex2Wellesley, 0, 0)})
    /\ InitCalib({40}, {45})
    /\ InitPenny({system})
    /\ InitInterp({OneFrame})
    /\ InitRoot

NextEx2 ==
    \/ sim.pc = "idle" /\ run_simulation_begin(bikeshare, Ex2NumSteps)
    \/ run_simulation_iter
    \/ run_simulation_end

SpecEx2 == InitEx2 /\ [][NextEx2]_vars

\* The calibration notebook: range_func called directly, by an optimizer or
\* by the sweep, in any order.
InitCalibration ==
    /\ InitBike({State(Ex2Olin, Ex2Wellesley, 0, 0)})
    /\ InitCalib(InitSpeeds, InitAngles)
    /\ InitPenny({system})
    /\ InitInterp({OneFrame})
    /\ InitRoot

NextCalibration ==
    \/ \E angle \in TrialAngles : call_range_func(angle)
    \/ sweep_begin
    \/ sweep_iter
    \/ sweep_end

SpecCalibration == InitCalibration /\ [][NextCalibration]_vars

\* The calibration notebook with the optimizer: direct calls of range_func
\* between searches, and maximize_scalar over the bounds of the notebook.
NextOptimize ==
    \/ \E angle \in TrialAngles :
          opt.pc \in {"idle", "done"} /\ call_range_func(angle)
    \/ maximize_scalar_begin
    \/ maximize_scalar_first
    \/ maximize_scalar_second
    \/ maximize_scalar_iter
    \/ maximize_scalar_end

SpecOptimize == InitCalibration /\ [][NextOptimize]_vars

\* The penny notebook: the test of slope_func, and runs of run_solve_ivp with
\* and without the event function, from each of the initial conditions.
InitPennies ==
    /\ InitBike({State(Ex2Olin, Ex2Wellesley, 0, 0)})
    /\ InitCalib({40}, {45})
    /\ InitPenny(Systems)
    /\ InitInterp({OneFrame})
    /\ InitRoot

NextPennies ==
    \/ call_slope_func
    \/ \E events \in BOOLEAN : run_solve_ivp_begin(events)
    \/ \E h \in StepSizes : run_solve_ivp_step(h)
    \/ \E fn \in {"slope_func", "event_func"}, tt \in TrialTimes, st \in TrialStates :
          run_solve_ivp_speculate(fn, tt, st)
    \/ run_solve_ivp_fail

SpecPennies == InitPennies /\ [][NextPennies]_vars

\* The insulin notebook: interpolate, then the interpolating function at
\* times within and outside the samples.
InitInsulin ==
    /\ InitBike({State(Ex2Olin, Ex2Wellesley, 0, 0)})
    /\ InitCalib({40}, {45})
    /\ InitPenny({system})
    /\ InitInterp(DataFrames)
    /\ InitRoot

NextInsulin ==
    \/ call_interpolate
    \/ call_interpolate_extrapolate
    \/ \E t \in QueryTimes : call_I(t)

SpecInsulin == InitInsulin /\ [][NextInsulin]_vars

\* Exercise 1: root_scalar over the speed error function, with every
\* bracket of two of the speeds.
NextRoot ==
    \/ \E a, b \in BracketSpeeds : a < b /\ root_scalar_begin(a, b)
    \/ root_scalar_iter
    \/ root_scalar_end

SpecRoot == InitCalibration /\ [][NextRoot]_vars

----------------------------------------------------------------------------
(* Properties of the bike share model. *)

Total(h, s) == h[s].olin + h[s].wellesley

\* C1: no operation changes the total number of bikes of a State object:
\* every version of bike_to_olin (the early return included), both versions
\* of bike_to_wellesley and every step of run_simulation leave
\* olin + wellesley as it was, so the sum stays at its initial value.
C1_TotalBikesConstant ==
    [][\A s \in Refs : Total(heap', s) = Total(heap, s)]_vars

\* A run_simulation of two steps has returned; during it a customer found
\* no bike at Wellesley and the number of bikes at Olin changed.
C1_Witness ==
    /\ sim.pc = "done"
    /\ sim.i >= 2
    /\ heap[sim.state].wellesley_empty >= 1
    /\ sim.results.last # sim.results.first

\* C2: with the guarded versions of bike_to_olin, the number of bikes at
\* Wellesley is never negative, whatever bike_to_olin and bike_to_wellesley
\* calls are made from non-negative counts.
C2_WellesleyNeverNegative ==
    \A s \in Refs : heap[s].wellesley >= 0

\* After an earlier call, bike_to_olin was called with no bike at Wellesley.
C2_Witness ==
    /\ ops >= 2
    /\ last.op \in {"bike_to_olin_guarded", "bike_to_olin"}
    /\ prev[last.arg].wellesley = 0
    /\ heap[last.arg].wellesley = 0
    /\ heap[last.arg].olin >= 1

\* C3: in Exercise 2 (olin=10, wellesley=2, num_steps=60) neither count is
\* ever negative, whatever the flips are.
C3_NeverNegative ==
    \A s \in Refs : heap[s].olin >= 0 /\ heap[s].wellesley >= 0

\* C4: the guarded bike_to_olin, called with no bike at Wellesley, returns
\* without changing anything.
C4_EarlyReturnChangesNothing ==
    (last.op = "bike_to_olin_guarded" /\ prev[last.arg].wellesley = 0)
        => heap = prev

\* The guarded bike_to_olin has been called with no bike at Wellesley.
C4_Witness ==
    /\ last.op = "bike_to_olin_guarded"
    /\ prev[last.arg].wellesley = 0
    /\ heap[last.arg] = prev[last.arg]

\* C5: the metric-keeping bike_to_olin, called with no bike at Wellesley,
\* adds exactly one to wellesley_empty and changes nothing else; called with
\* a bike at Wellesley it moves one bike to Olin and leaves wellesley_empty.
C5_UnhappyCustomersCounted ==
    last.op = "bike_to_olin" =>
        heap[last.arg] =
            IF prev[last.arg].wellesley = 0
            THEN [prev[last.arg] EXCEPT !.wellesley_empty = @ + 1]
            ELSE [prev[last.arg] EXCEPT !.wellesley = @ - 1, !.olin = @ + 1]

\* The metric-keeping bike_to_olin has counted an unhappy customer.
C5_Witness ==
    /\ last.op = "bike_to_olin"
    /\ prev[last.arg].wellesley = 0
    /\ heap[last.arg].wellesley_empty = prev[last.arg].wellesley_empty + 1
    /\ heap[last.arg].olin = prev[last.arg].olin

\* C6: an operation on one State object leaves every field of every other
\* State object as it was.
C6_StatesIndependent ==
    \A o \in Refs \ {last.arg} : heap[o] = prev[o]

\* After an earlier operation, bike_to_wellesley(bikeshare2) has changed
\* bikeshare2 and not bikeshare.
C6_Witness ==
    /\ ops >= 2
    /\ last.op = "bike_to_wellesley"
    /\ last.arg = bikeshare2
    /\ heap[bikeshare2] # prev[bikeshare2]
    /\ heap[bikeshare] = prev[bikeshare]

\* C7: without an availability check a count can become negative: every
\* call moves a bike, whatever the count it takes it from, so from
\* non-negative counts a negative one is reached (the witness).
C7_NoAvailabilityCheck ==
    /\ last.op = "bike_to_olin_doc" =>
          heap[last.arg].wellesley = prev[last.arg].wellesley - 1
    /\ last.op \in {"bike_to_wellesley", "bike_to_wellesley_global"} =>
          heap[last.arg].olin = prev[last.arg].olin - 1

\* A count is negative.
C7_Witness ==
    \E s \in Refs : heap[s].olin < 0 \/ heap[s].wellesley < 0

\* C8: from the same state, bike_to_wellesley(bikeshare) and the
\* zero-argument bike_to_wellesley() end in the same state: olin of
\* bikeshare one less, wellesley one more, everything else as before.
C8_ParameterisedSameAsGlobal ==
    LET g == bike_to_wellesley_global(heap)
        p == bike_to_wellesley(heap, bikeshare)
    IN  /\ g = p
        /\ g[bikeshare] = [heap[bikeshare] EXCEPT !.olin = @ - 1,
                                                   !.wellesley = @ + 1]
        /\ g[bikeshare2] = heap[bikeshare2]

\* The zero-argument version has run, and left what bike_to_wellesley(bikeshare)
\* leaves from the state before it.
C8_Witness ==
    /\ last.op = "bike_to_wellesley_global"
    /\ heap = bike_to_wellesley(prev, bikeshare)
    /\ heap[bikeshare].olin = prev[bikeshare].olin - 1

----------------------------------------------------------------------------
(* Properties of the calibration. *)

\* C9: evaluations of range_func never change the caller's params: after
\* any number of calls (the sweep, an optimizer's calls) every field of it,
\* angle included, has the value it had before the first call.
C9_ParamsNotMutated ==
    pheap[params] = params0

\* The sweep of 21 angles is over and the latest evaluation was made at an
\* angle that is not the caller's.
C9_Witness ==
    /\ sw.pc = "done"
    /\ Cardinality(DOMAIN sw.series) = SweepCount
    /\ eval.made
    /\ eval.angle # params0.angle

\* The value range_func returns for an angle in a program that has made no
\* evaluation yet, its params being pr.
FirstEvaluation(angle, pr) ==
    range_func([r \in {params} |-> pr], angle, params).ret

\* C10: the value of an evaluation depends on the angle and the params
\* only, never on the evaluations made before it: whatever the history,
\* range_func returns what it returns as the first evaluation of a run.
C10_EvaluationsIndependent ==
    /\ eval.made => eval.ret = FirstEvaluation(eval.angle, params0)
    /\ \A a \in DOMAIN sw.series : sw.series[a] = FirstEvaluation(a, params0)

\* After the whole sweep, range_func was called directly at an angle the
\* sweep does not visit, and the ball flew.
C10_Witness ==
    /\ sw.pc = "done"
    /\ eval.made
    /\ eval.angle \notin DOMAIN sw.series
    /\ eval.ret > 0

----------------------------------------------------------------------------
(* Properties of the optimizer. *)

\* C11: maximize_scalar(range_func, params, bounds=[0, 90]) calls the
\* objective only with angles from 0 to 90, both ends included: every
\* evaluation of the search, the one just made among them, was made at such
\* an angle.
C11_EvaluatesWithinBounds ==
    /\ \A e \in opt.evals : 0 <= e[1] /\ e[1] <= 90
    /\ opt.pc \in {"second", "loop"} => eval.made /\ 0 <= eval.angle /\ eval.angle <= 90

\* A search is over after at least five evaluations.
C11_Witness ==
    /\ opt.pc = "done"
    /\ Cardinality(opt.evals) >= 5

\* C12: res.fun is the value of range_func at res.x, res.x is one of the
\* angles the search evaluated, and no angle the search evaluated gave a
\* larger range.
C12_ResultIsBestEvaluation ==
    opt.res.made =>
        /\ opt.res.fun = FirstEvaluation(opt.res.x, params0)
        /\ <<opt.res.x, opt.res.fun>> \in opt.evals
        /\ \A e \in opt.evals : e[2] <= opt.res.fun

\* A search has returned a positive range, having evaluated angles that
\* give a smaller one.
C12_Witness ==
    /\ opt.res.made
    /\ opt.res.fun > 0
    /\ \E e \in opt.evals : e[2] < opt.res.fun

----------------------------------------------------------------------------
(* Properties of the penny. *)

\* Free fall in closed form: the height and the velocity t ticks after the
\* start of a run of the System sys.
HeightAt(sys, t) == sys.init[1] + sys.init[2] * t - (sys.g * t * t) \div 2

VelocityAt(sys, t) == sys.init[2] - sys.g * t

LastRow == pen.results[Len(pen.results)]

abs(x) == IF x < 0 THEN 0 - x ELSE x

\* A run with the event function has ended and the integrator did not fail.
EventRunDone == pen.pc = "done" /\ pen.events /\ pen.details.success

\* C14: the penny, State(y=381, v=0) with g=9.8 and t_end=10, run with the
\* event function: the run ends at the event; in its last row the height is
\* within half a metre of 0 (less than the penny falls in one tick), the
\* time is 8.815 s or 8.82 s and not 10 s, and the velocity is minus g times
\* the flight time, between -87 and -85 m/s.
C14_PennyLandsAtEvent ==
    (EventRunDone /\ psys0 = system) =>
        /\ pen.details.status = 1
        /\ abs(LastRow.y) <= UnitsPerMetre \div 2
        /\ abs(LastRow.y) <= abs(LastRow.v)
        /\ LastRow.t \in {1763, 1764}
        /\ LastRow.t < psys0.t_end
        /\ LastRow.v = 0 - psys0.g * LastRow.t
        /\ 0 - 87 * 2000 <= LastRow.v /\ LastRow.v <= 0 - 85 * 2000

\* The penny's run with the event function has ended at 8.82 s.
C14_Witness ==
    /\ EventRunDone
    /\ psys0 = system
    /\ LastRow.t = 1764
    /\ pen.details.message = MsgEvent

\* The height has a sign at tick t - 1 and another, or zero, at tick t.
CrossesAt(sys, t) == crosses(HeightAt(sys, t - 1), HeightAt(sys, t))

HasCrossing(sys) == \E t \in 1 .. sys.t_end : CrossesAt(sys, t)

\* The first tick at which the event function, the height, changes sign.
FirstCrossing(sys) ==
    CHOOSE t \in 1 .. sys.t_end :
        /\ CrossesAt(sys, t)
        /\ \A u \in 1 .. (t - 1) : ~CrossesAt(sys, u)

C17_FailureReported ==
    (pen.pc = "done" /\ pen.details.status < 0) =>
        /\ pen.details.success = FALSE
        /\ pen.details.message = MsgFail
        /\ pen.results[1].t = 0
        /\ LastRow.t = pen.t
        /\ \A i \in DOMAIN pen.results :
              /\ pen.results[i].y = HeightAt(psys0, pen.results[i].t)
              /\ pen.results[i].v = VelocityAt(psys0, pen.results[i].t)

\* The integrator failed after two accepted steps, before t_end.
C17_Witness ==
    /\ pen.pc = "done"
    /\ pen.details.status < 0
    /\ ~pen.details.success
    /\ Len(pen.results) = 3
    /\ LastRow.t < psys0.t_end

\* C18: slope_func returns the pair (v, -system.g), the derivative of y
\* first and the derivative of v second; at State(y=381, v=0) with g=9.8 it
\* returns (0, -9.8).
C18_SlopeIsVelocityThenGravity ==
    fe.fn = "slope_func" =>
        /\ fe.ret = << fe.state[2], 0 - psys0.g >>
        /\ fe.state = init => fe.ret = << 0, 0 - 98 >>

\* slope_func(0, system.init, system) was called for the penny.
C18_Witness ==
    /\ fe.fn = "slope_func"
    /\ fe.t = 0
    /\ fe.state = init
    /\ fe.ret = << 0, 0 - 98 >>
    /\ pen.pc = "idle"

\* C19: slope_func and event_func change neither the State nor the System
\* they are given, and the rows of a run are those of the trajectory
\* whatever evaluations were made, the discarded ones among them.
C19_EvaluationsArePure ==
    /\ psys = psys0
    /\ fe.after = fe.state
    /\ \A i \in DOMAIN pen.results :
          /\ pen.results[i].y = HeightAt(psys0, pen.results[i].t)
          /\ pen.results[i].v = VelocityAt(psys0, pen.results[i].t)

\* In the middle of a run, after two accepted steps, the integrator
\* evaluated event_func at a trial point and discarded the value.
C19_Witness ==
    /\ pen.pc = "run"
    /\ Len(pen.results) >= 3
    /\ fe.fn = "event_func"
    /\ fe.state \in TrialStates
    /\ fe.state # pen.state

----------------------------------------------------------------------------
(* Properties of the interpolation. *)

\* C20: the interpolating function gives back the measurements: asked for
\* the time of a row of the data, I returns the insulin value of that row,
\* and no error.
C20_RoundTrip ==
    \A i \in DOMAIN data :
        (query.made /\ query.t = data[i].time) =>
            /\ ~query.error
            /\ query.ret = data[i].insulin

\* I was asked for t = 19, a row between two others, whose value differs
\* from the values of both.
C20_Witness ==
    /\ query.made
    /\ query.t = 19
    /\ query.ret = data[3].insulin
    /\ data[2].insulin # data[3].insulin
    /\ data[4].insulin # data[3].insulin

\* The latest call of I was made for a time strictly between the times of
\* rows i and i + 1.
AskedBetween(i) ==
    /\ query.made
    /\ data[i].time < query.t
    /\ query.t < data[i + 1].time

lower(a, b) == IF a <= b THEN a ELSE b

upper(a, b) == IF a <= b THEN b ELSE a

\* C21, as the claim states it: the value at a time strictly between the
\* times of two consecutive rows is strictly between the insulin values of
\* the two rows.
C21_StrictlyBetween ==
    \A i \in 1 .. (Len(data) - 1) :
        AskedBetween(i) =>
            /\ ~query.error
            /\ lower(data[i].insulin, data[i + 1].insulin) < query.ret
            /\ query.ret < upper(data[i].insulin, data[i + 1].insulin)

\* C21, amended: the value at such a time is between the insulin values of
\* the two rows; it is strictly between them when the two values differ,
\* and equal to both when they are equal.
C21_BetweenNeighbours ==
    \A i \in 1 .. (Len(data) - 1) :
        AskedBetween(i) =>
            /\ ~query.error
            /\ lower(data[i].insulin, data[i + 1].insulin) <= query.ret
            /\ query.ret <= upper(data[i].insulin, data[i + 1].insulin)
            /\ data[i].insulin # data[i + 1].insulin =>
                  /\ lower(data[i].insulin, data[i + 1].insulin) < query.ret
                  /\ query.ret < upper(data[i].insulin, data[i + 1].insulin)

\* I(18) with 35 at t = 16 and 30 at t = 19: the value is 31.666.
C21_Witness ==
    /\ AskedBetween(2)
    /\ query.t = 18
    /\ data[2].insulin = 35000
    /\ data[3].insulin = 30000
    /\ query.ret = 31666

\* The latest call of I was made for a time before the first row or after
\* the last one.
AskedOutside ==
    /\ query.made
    /\ (query.t < data[1].time \/ query.t > data[Len(data)].time)

\* C22: a call of the interpolating function for a time outside the rows
\* ends in an error, and returns no value, unless the function was built
\* with fill_value='extrapolate'; the function interpolate(data.insulin)
\* returns was not.
C22_OutsideIsError ==
    AskedOutside =>
        /\ ~query.extrapolate => query.error /\ query.ret = 0
        /\ query.error => ~query.extrapolate

\* I = interpolate(data.insulin) was asked for t = 12, before the first row,
\* and for t = 24, after the last one.
C22_Witness ==
    /\ AskedOutside
    /\ query.t \in {12, 24}
    /\ ~query.extrapolate
    /\ ~interp.extrapolate
    /\ query.error

----------------------------------------------------------------------------
(* Properties of the root-finder. *)

\* root_scalar has returned or failed, and the error has the same sign,
\* not zero, at both ends of the bracket it was given.
NoSignChange ==
    /\ rs.res.made
    /\ sign(error_func(rs.a, params0)) * sign(error_func(rs.b, params0)) > 0

\* C23: given a bracket whose ends have errors of the same sign,
\* root_scalar fails and says why; it has not converged and it returns no
\* root, neither an end of the bracket nor any other speed.
C23_NoBracketFails ==
    NoSignChange =>
        /\ rs.res.failed
        /\ ~rs.res.converged
        /\ rs.res.message = MsgSign
        /\ rs.res.root = << >>

\* root_scalar has failed on the bracket [38, 50], where the ball clears
\* the wall at both ends.
C23_Witness ==
    /\ NoSignChange
    /\ rs.a = 38
    /\ rs.b = 50
    /\ error_func(rs.a, params0) > 0
    /\ rs.res.failed

----------------------------------------------------------------------------
(* Properties of run_simulation. *)

\* The current run of run_simulation was given the State object of the run
\* that returned before it, and nothing was called between the two.
SecondRunOnSameState ==
    /\ sim.before.made
    /\ sim.before.state = sim.state
    /\ ~sim.before.apart

\* C24: run_simulation works on the caller's State object: during the loop
\* and when it has returned, the object holds the olin the run recorded
\* last; and a run on the object of the run before it starts where that run
\* ended, its results[0] being the last olin that run recorded.
C24_RunsInPlace ==
    /\ (sim.pc \in {"loop", "done"}
          /\ last.op \in {"step", "run_simulation"}
          /\ last.arg = sim.state) =>
             heap[sim.state].olin = sim.results.last
    /\ SecondRunOnSameState => sim.results.first = sim.before.last

\* A second run on the same State object has returned; it did not start
\* from the olin the first run started from.
C24_Witness ==
    /\ sim.pc = "done"
    /\ SecondRunOnSameState
    /\ sim.results.first = sim.before.last
    /\ sim.results.first # sim.before.first

====
